---- MODULE Spec2Model ----
(***************************************************************************)
(* Model of rmgpy/tools/loader.py, load_rmg_py_job: the reconciliation of  *)
(* an RMG input file (rmg.initial_species, rmg.reaction_systems) with the  *)
(* Chemkin model (species_list, reaction_list) that RMG generated.         *)
(*                                                                         *)
(* Objects are records carrying an id, so two objects with equal fields    *)
(* remain distinct.  A label is a sequence of tokens; the token "_obs" is  *)
(* the substring '_obs', every other token is a run of other characters.   *)
(* A Python dict is a sequence of <<key, value>> pairs with distinct keys, *)
(* in insertion order.                                                     *)
(***************************************************************************)
EXTENDS Integers, Sequences, FiniteSets, TLC

VARIABLES
    pc,                \* position in load_rmg_py_job
    idx,               \* index of the reactor the current loop is at
    species_list,      \* the local species_list
    reaction_list,     \* the local reaction_list
    initial_species,   \* rmg.initial_species
    reaction_systems,  \* rmg.reaction_systems
    species_dict,      \* the input-species -> Chemkin-species dict
    core,              \* rmg.reaction_model.core (species, reactions)
    generate_images,   \* the generate_images argument
    fs,                \* the file system under dirname(input_file)/species
    draw_calls,        \* labels molecule[0].draw was called for, in order
    error,             \* the exception that left the function, or "none"
    loaded             \* what load_input and load_chemkin_file returned

vars == <<pc, idx, species_list, reaction_list, initial_species, reaction_systems,
          species_dict, core, generate_images, fs, draw_calls, error, loaded>>

---------------------------------------------------------------------------
(* Bounds *)

MaxCanon == 2
MaxInitial == 2
MaxReactors == 2
MaxReactions == 2

---------------------------------------------------------------------------
(* Values *)

Obs == "_obs"

Range(s) == {s[i] : i \in DOMAIN s}

RECURSIVE SeqSum(_)
SeqSum(s) == IF s = <<>> THEN 0 ELSE Head(s) + SeqSum(Tail(s))

\* Sequences over S of length lo..hi
SeqsOf(S, lo, hi) == UNION {[1..n -> S] : n \in lo..hi}

\* those without repetition
DistinctSeqsOf(S, lo, hi) ==
    {s \in SeqsOf(S, lo, hi) : \A i, j \in DOMAIN s : s[i] = s[j] => i = j}

\* species.is_isomorphic(other): the graph-matching library's answer; a
\* species' struct names its isomorphism class
is_isomorphic(a, b) == a.struct = b.struct

\* '_obs' in label
HasObs(label) == \E i \in DOMAIN label : label[i] = Obs

\* label + '_obs'
ObsLabel(label) == Append(label, Obs)

\* species.copy(deep=True) followed by the assignment of the label: a new
\* object with the same structure and reactivity
ObservedCopy(sp, newid) ==
    [id |-> newid, label |-> ObsLabel(sp.label), struct |-> sp.struct,
     reactive |-> sp.reactive]

\* the list ['all']
AllSentinel == <<[str |-> "all"]>>

\* reaction.pairs = None, written as a list that holds no pair but the mark
None == <<"None">>

---------------------------------------------------------------------------
(* Observed species of one MBSampledReactor (lines 87-102) *)

IsConstantSpecies(sp, rs) ==
    \E k \in DOMAIN rs.constantSpeciesList :
        is_isomorphic(sp, rs.constantSpeciesList[k])

HasObservedTwin(sl, sp) ==
    \E j \in DOMAIN sl : sl[j].label = ObsLabel(sp.label)

NeedsObserved(sl, rs, sp) ==
    /\ ~HasObs(sp.label)
    /\ sp.reactive
    /\ ~IsConstantSpecies(sp, rs)
    /\ ~HasObservedTwin(sl, sp)

\* the observed_species_list built from the first n species of sl
RECURSIVE ObservedUpTo(_, _, _)
ObservedUpTo(sl, rs, n) ==
    IF n = 0 THEN <<>>
    ELSE LET before == ObservedUpTo(sl, rs, n - 1)
         IN  IF NeedsObserved(sl, rs, sl[n])
             THEN Append(before,
                         ObservedCopy(sl[n], <<"copy", Len(sl) + Len(before) + 1>>))
             ELSE before

ObservedSpeciesList(sl, rs) == ObservedUpTo(sl, rs, Len(sl))

\* variant: the observed species put in front of the list
ExtendInFront(sl, more) == more \o sl

\* species_list.extend(observed_species_list)
Extend(sl, more) == sl \o more

SynthesizeFor(sl, rs) ==
    IF rs.kind = "MBSampledReactor"
    THEN Extend(sl, ObservedSpeciesList(sl, rs))
    ELSE sl

---------------------------------------------------------------------------
(* Species map (lines 105-110) *)

Matches(sl, spec0) == {j \in DOMAIN sl : is_isomorphic(sl[j], spec0)}

\* variant: the inner loop without its break, the last match staying
LastMatch(sl, spec0) ==
    CHOOSE j \in Matches(sl, spec0) : \A k \in Matches(sl, spec0) : k <= j

\* the index the inner loop breaks at
FirstMatch(sl, spec0) ==
    CHOOSE j \in Matches(sl, spec0) : \A k \in Matches(sl, spec0) : j <= k

MapSpeciesDict(init, sl) ==
    [s \in {init[i] : i \in {i \in DOMAIN init : Matches(sl, init[i]) # {}}}
        |-> sl[FirstMatch(sl, s)]]

---------------------------------------------------------------------------
(* Flux pairs (lines 113-115) *)

\* variant: the test of reaction.pairs left out
PairsMissingAlways(r) == TRUE

\* not reaction.pairs
PairsMissing(r) == r.pairs = None \/ r.pairs = <<>>

\* reaction.generate_pairs(): stores the pairs the reaction's reactants and
\* products derive (r.derived); r.calls counts the calls
generate_pairs(r) == [r EXCEPT !.pairs = r.derived, !.calls = @ + 1]

CompletePairs(rl) ==
    [k \in DOMAIN rl |-> IF PairsMissing(rl[k]) THEN generate_pairs(rl[k]) ELSE rl[k]]

---------------------------------------------------------------------------
(* Python dicts *)

Keys(d) == {d[i][1] : i \in DOMAIN d}

Values(d) == [i \in DOMAIN d |-> d[i][2]]

\* d[k] = v
DictPut(d, k, v) ==
    IF k \in Keys(d)
    THEN [i \in DOMAIN d |-> IF d[i][1] = k THEN <<k, v>> ELSE d[i]]
    ELSE Append(d, <<k, v>>)

RECURSIVE DictUpTo(_, _)
DictUpTo(ps, n) ==
    IF n = 0 THEN <<>> ELSE DictPut(DictUpTo(ps, n - 1), ps[n][1], ps[n][2])

\* dict([(k, v), ...])
DictFromPairs(ps) == DictUpTo(ps, Len(ps))

---------------------------------------------------------------------------
(* Replacing the input file's species in one reactor (lines 118-146).     *)
(* Each step takes and returns [ok, rs]: rs is the reactor as mutated so  *)
(* far, ok is FALSE once a lookup raised KeyError.                        *)

\* species_dict[spec] does not raise
Mapped(sd, spec) == spec \in DOMAIN sd

\* dict([(species_dict[spec], x) for spec, x in quantities.items()])
RemappedQuantities(sd, quantities) ==
    DictFromPairs([i \in DOMAIN quantities |->
                      <<sd[quantities[i][1]], quantities[i][2]>>])

QuantitiesOK(sd, quantities) == \A spec \in Keys(quantities) : Mapped(sd, spec)

\* lines 124-128 and 129 raise nothing
ConstNamesOK(sd, init, names) ==
    /\ \A i \in DOMAIN init :
          init[i].label \in Range(names) => Mapped(sd, init[i])
    /\ \A k \in DOMAIN names : \E i \in DOMAIN init : init[i].label = names[k]

\* variant: the input species' own label stored
ConstSpeciesLabelOfInput(sd, init, sname) ==
    LET named == {i \in DOMAIN init : init[i].label = sname}
        last  == CHOOSE i \in named : \A j \in named : j <= i
    IN  init[last].label

\* const_species_dict[sname]: the last spec0 labelled sname wrote the entry
ConstSpeciesLabel(sd, init, sname) ==
    LET named == {i \in DOMAIN init : init[i].label = sname}
        last  == CHOOSE i \in named : \A j \in named : j <= i
    IN  sd[init[last]].label

RemapConstNames(sd, init, r) ==
    IF ~r.ok \/ r.rs.kind # "LiquidReactor" \/ r.rs.const_spc_names = <<>>
    THEN r
    ELSE IF ~ConstNamesOK(sd, init, r.rs.const_spc_names)
    THEN [r EXCEPT !.ok = FALSE]
    ELSE [r EXCEPT !.rs.const_spc_names =
              [k \in DOMAIN r.rs.const_spc_names |->
                  ConstSpeciesLabel(sd, init, r.rs.const_spc_names[k])]]

\* the fields one reactor class keeps its quantities in, in the order the
\* code replaces them
QuantityFields(kind) ==
    CASE kind = "LiquidReactor"  -> <<"initial_concentrations">>
      [] kind = "SurfaceReactor" -> <<"initial_gas_mole_fractions",
                                      "initial_surface_coverages">>
      [] OTHER                   -> <<"initial_mole_fractions">>

\* variant: a mapping with a key the dict lacks is left as it is
RemapFieldSkipping(sd, r, f) ==
    IF ~r.ok \/ ~QuantitiesOK(sd, r.rs[f]) THEN r
    ELSE [r EXCEPT !.rs[f] = RemappedQuantities(sd, r.rs[f])]

\* one quantity mapping replaced (lines 131-132, 134-137, 139-140)
RemapField(sd, r, f) ==
    IF ~r.ok THEN r
    ELSE IF ~QuantitiesOK(sd, r.rs[f]) THEN [r EXCEPT !.ok = FALSE]
    ELSE [r EXCEPT !.rs[f] = RemappedQuantities(sd, r.rs[f])]

RECURSIVE RemapFieldsUpTo(_, _, _, _)
RemapFieldsUpTo(sd, r, fields, n) ==
    IF n = 0 THEN r
    ELSE RemapField(sd, RemapFieldsUpTo(sd, r, fields, n - 1), fields[n])

RemapQuantities(sd, r) ==
    RemapFieldsUpTo(sd, r, QuantityFields(r.rs.kind),
                    Len(QuantityFields(r.rs.kind)))

IsConversion(t) == t.type = "TerminationConversion"

\* the criteria whose species lookup raises
UnmappedCriteria(sd, termination) ==
    {k \in DOMAIN termination :
        IsConversion(termination[k]) /\ ~Mapped(sd, termination[k].species)}

\* the loop of lines 142-144 assigns t.species in place, criterion by
\* criterion, up to the first lookup that raises
RemapTermination(sd, r) ==
    IF ~r.ok THEN r
    ELSE LET term == r.rs.termination
             bad  == UnmappedCriteria(sd, term)
             stop == IF bad = {} THEN Len(term) + 1
                     ELSE CHOOSE k \in bad : \A j \in bad : k <= j
         IN  [ok |-> bad = {},
              rs |-> [r.rs EXCEPT !.termination =
                        [k \in DOMAIN term |->
                            IF k < stop /\ IsConversion(term[k])
                            THEN [term[k] EXCEPT !.species = sd[term[k].species]]
                            ELSE term[k]]]]

RemapSensitive(sd, r) ==
    IF ~r.ok \/ r.rs.sensitive_species = AllSentinel THEN r
    ELSE IF \E k \in DOMAIN r.rs.sensitive_species :
                ~Mapped(sd, r.rs.sensitive_species[k])
    THEN [r EXCEPT !.ok = FALSE]
    ELSE [r EXCEPT !.rs.sensitive_species =
              [k \in DOMAIN r.rs.sensitive_species |-> sd[r.rs.sensitive_species[k]]]]

\* one iteration of the loop of line 118
RemapReactor(sd, init, rs) ==
    RemapSensitive(sd,
        RemapTermination(sd,
            RemapQuantities(sd,
                RemapConstNames(sd, init, [ok |-> TRUE, rs |-> rs]))))

---------------------------------------------------------------------------
(* The species directory and the images (lines 153-162) *)

\* os.mkdir(species_path): "EEXIST" when the directory is there, "EACCES"
\* when the parent refuses it, else the directory is made
MkdirResult(f) ==
    IF f.dir THEN "EEXIST" ELSE IF ~f.writable THEN "EACCES" ELSE "ok"

Mkdir(f) == IF MkdirResult(f) = "ok" THEN [f EXCEPT !.dir = TRUE] ELSE f

\* os.path.exists(path), path named after the species
ImageExists(f, sp) == f.dir /\ sp.label \in f.images

\* the loop of lines 159-162 over the first n species: r.f the file system,
\* r.calls the draw calls made, r.ok FALSE once draw raised (it cannot
\* write below a directory that is not there)
RECURSIVE DrawUpTo(_, _, _)
DrawUpTo(f, sl, n) ==
    IF n = 0 THEN [ok |-> TRUE, f |-> f, calls |-> <<>>]
    ELSE LET r == DrawUpTo(f, sl, n - 1)
         IN  IF ~r.ok \/ ImageExists(r.f, sl[n]) THEN r
             ELSE [ok    |-> r.f.dir,
                   f     |-> IF r.f.dir
                             THEN [r.f EXCEPT !.images = @ \cup {sl[n].label}]
                             ELSE r.f,
                   calls |-> Append(r.calls, sl[n].label)]

DrawImages(f, sl) == DrawUpTo(f, sl, Len(sl))

---------------------------------------------------------------------------
(* The jobs the function is run on *)

\* the objects of a list, the i-th with identity <<tag, i>>
WithIds(tag, kinds) ==
    [i \in DOMAIN kinds |->
        [id |-> <<tag, i>>, label |-> kinds[i].label, struct |-> kinds[i].struct,
         reactive |-> kinds[i].reactive]]

Kind(label, struct, reactive) ==
    [label |-> label, struct |-> struct, reactive |-> reactive]

\* lists load_chemkin_file returns
ChemkinLists(kinds, lo, hi) == {WithIds("ck", s) : s \in DistinctSeqsOf(kinds, lo, hi)}

\* lists load_input leaves in rmg.initial_species
InputLists(kinds, lo, hi) == {WithIds("in", s) : s \in DistinctSeqsOf(kinds, lo, hi)}

SimpleReactor(x, termination, sensitive) ==
    [kind |-> "SimpleReactor", initial_mole_fractions |-> x,
     termination |-> termination, sensitive_species |-> sensitive]

LiquidReactor(c, names, termination, sensitive) ==
    [kind |-> "LiquidReactor", initial_concentrations |-> c,
     const_spc_names |-> names,
     termination |-> termination, sensitive_species |-> sensitive]

SurfaceReactor(x, cov, termination, sensitive) ==
    [kind |-> "SurfaceReactor", initial_gas_mole_fractions |-> x,
     initial_surface_coverages |-> cov,
     termination |-> termination, sensitive_species |-> sensitive]

MBSampledReactor(x, constant, termination, sensitive) ==
    [kind |-> "MBSampledReactor", initial_mole_fractions |-> x,
     constantSpeciesList |-> constant,
     termination |-> termination, sensitive_species |-> sensitive]

TerminationTime == [type |-> "TerminationTime"]

TerminationConversion(sp) == [type |-> "TerminationConversion", species |-> sp]

\* quantities (integers standing for the amounts)
Amounts == {1, 2}

RECURSIVE Ascending(_)
Ascending(K) ==
    IF K = {} THEN <<>>
    ELSE LET m == CHOOSE i \in K : \A j \in K : i <= j
         IN  <<m>> \o Ascending(K \ {m})

\* the dicts from at most n of the input species to amounts
QuantityDicts(init, n) ==
    UNION {{[k \in 1..Cardinality(K) |->
                <<init[Ascending(K)[k]], v[Ascending(K)[k]]>>] : v \in [K -> Amounts]}
           : K \in {K \in SUBSET DOMAIN init : Cardinality(K) <= n}}

Criteria(init) == {TerminationTime} \cup {TerminationConversion(s) : s \in Range(init)}

SensitiveLists(init) == {AllSentinel} \cup SeqsOf(Range(init), 0, 1)

NoFiles == [dir |-> FALSE, writable |-> TRUE, images |-> {}]

OneReaction == <<[id |-> 1, pairs |-> None, derived |-> <<"p1">>, calls |-> 0]>>

Job(sl, rl, init, systems, images, files) ==
    [species_list |-> sl, reaction_list |-> rl, initial_species |-> init,
     reaction_systems |-> systems, generate_images |-> images, fs |-> files]

\* the state load_rmg_py_job is in once load_input and load_chemkin_file
\* have returned (line 82)
Start(job) ==
    /\ loaded = job
    /\ species_list = job.species_list
    /\ reaction_list = job.reaction_list
    /\ initial_species = job.initial_species
    /\ reaction_systems = job.reaction_systems
    /\ generate_images = job.generate_images
    /\ fs = job.fs
    /\ species_dict = <<>>
    /\ core = [species |-> <<>>, reactions |-> <<>>]
    /\ draw_calls = <<>>
    /\ error = "none"
    /\ pc = "observed"
    /\ idx = 1

\* Chemkin species for the observed-species pass: labels with and without
\* '_obs', shared labels, both reactivities
ObservedKinds ==
    {Kind(<<"A">>, 1, TRUE), Kind(<<"A">>, 2, TRUE), Kind(<<"A">>, 1, FALSE),
     Kind(<<"A", Obs>>, 1, TRUE), Kind(<<"A", Obs, "B">>, 2, TRUE),
     Kind(<<"B">>, 2, TRUE)}

InputKinds == {Kind(<<"A">>, 1, TRUE), Kind(<<"B">>, 1, TRUE), Kind(<<"B">>, 2, TRUE)}

\* jobs with sampled reactors
SampledSystems(init) ==
    {SimpleReactor(<<>>, <<>>, AllSentinel)}
    \cup {MBSampledReactor(x, c, <<>>, AllSentinel) :
             x \in QuantityDicts(init, 1), c \in SeqsOf(Range(init), 0, 1)}

SampledJobs ==
    \E init \in InputLists({Kind(<<"A">>, 1, TRUE), Kind(<<"A">>, 2, TRUE)}, 0, 1) :
        \E sl \in ChemkinLists(ObservedKinds, 1, MaxCanon),
           systems \in SeqsOf(SampledSystems(init), 1, MaxReactors) :
            Start(Job(sl, OneReaction, init, systems, FALSE, NoFiles))

\* Chemkin lists for the replacement of the input species: one or two
\* structures, a structure listed twice, either order
ReplaceLists ==
    {WithIds("ck", s) : s \in
        {<<Kind(<<"X">>, 1, TRUE)>>,
         <<Kind(<<"X">>, 1, TRUE), Kind(<<"Y">>, 2, TRUE)>>,
         <<Kind(<<"Y">>, 2, TRUE), Kind(<<"X">>, 1, TRUE)>>,
         <<Kind(<<"X">>, 1, TRUE), Kind(<<"Z">>, 1, TRUE)>>}}

\* one reactor of every class, its quantities varied
QuantitySystems(init) ==
    {SimpleReactor(x, <<>>, AllSentinel) : x \in QuantityDicts(init, MaxInitial)}
    \cup {LiquidReactor(x, <<>>, <<>>, AllSentinel) : x \in QuantityDicts(init, MaxInitial)}
    \cup {MBSampledReactor(x, <<>>, <<>>, AllSentinel) : x \in QuantityDicts(init, MaxInitial)}
    \cup {SurfaceReactor(x, c, <<>>, AllSentinel) :
             x \in QuantityDicts(init, MaxInitial), c \in QuantityDicts(init, 1)}

\* one reactor, its termination criteria and sensitive species varied
CriteriaSystems(init) ==
    {SimpleReactor(<<>>, t, ss) :
        t \in SeqsOf(Criteria(init), 0, 2), ss \in SensitiveLists(init)}

\* one liquid reactor, its constant species names varied
ConstNameSystems(init) ==
    {LiquidReactor(c, names, <<>>, AllSentinel) :
        c \in QuantityDicts(init, 1),
        names \in SeqsOf({<<"A">>, <<"B">>, <<"C">>}, 1, 2)}

ReplaceJobs ==
    \E init \in InputLists(InputKinds, 0, MaxInitial) :
        \E sl \in ReplaceLists,
           rs \in QuantitySystems(init) \cup CriteriaSystems(init)
                     \cup ConstNameSystems(init) :
            Start(Job(sl, OneReaction, init, <<rs>>, FALSE, NoFiles))

\* several reactors, each referring to one input species
SequenceSystems(init) ==
    {SimpleReactor(<<<<s, 1>>>>, <<>>, AllSentinel) : s \in Range(init)}
    \cup {LiquidReactor(<<<<s, 2>>>>, <<s.label>>, <<TerminationConversion(s)>>, <<s>>) :
             s \in Range(init)}

SequenceJobs ==
    \E init \in InputLists(InputKinds, 1, MaxInitial) :
        \E sl \in ReplaceLists,
           systems \in SeqsOf(SequenceSystems(init), 2, MaxReactors) :
            Start(Job(sl, OneReaction, init, systems, FALSE, NoFiles))

\* reactions as the Chemkin file gives them: pairs absent, empty or set,
\* and what generate_pairs derives for them
ReactionKinds ==
    {[pairs |-> p, derived |-> d] :
        p \in {None, <<>>, <<"p1">>, <<"p1", "p2">>},
        d \in {<<>>, <<"p1">>, <<"p2", "p1">>}}

ReactionLists ==
    {[i \in DOMAIN s |->
         [id |-> i, pairs |-> s[i].pairs, derived |-> s[i].derived, calls |-> 0]] :
        s \in SeqsOf(ReactionKinds, 0, MaxReactions)}

PairJobs ==
    \E rl \in ReactionLists :
        Start(Job(WithIds("ck", <<Kind(<<"X">>, 1, TRUE)>>), rl,
                  WithIds("in", <<Kind(<<"A">>, 1, TRUE)>>),
                  <<SimpleReactor(<<>>, <<>>, AllSentinel)>>, FALSE, NoFiles))

\* the species directory: there or not, its parent writable or not, with
\* some images already drawn
FileSystems ==
    {[dir |-> FALSE, writable |-> w, images |-> {}] : w \in BOOLEAN}
    \cup {[dir |-> TRUE, writable |-> w, images |-> i] :
             w \in BOOLEAN, i \in SUBSET {<<"A">>, <<"A", Obs>>}}

ImageJobs ==
    \E sl \in ChemkinLists(ObservedKinds, 1, MaxCanon),
       systems \in {<<>>, <<MBSampledReactor(<<>>, <<>>, <<>>, AllSentinel)>>},
       files \in FileSystems :
        Start(Job(sl, OneReaction, <<>>, systems, TRUE, files))

---------------------------------------------------------------------------
(* load_rmg_py_job *)

Init == SampledJobs \/ ReplaceJobs \/ SequenceJobs \/ PairJobs \/ ImageJobs

\* lines 85-102, one reactor
SynthesizeObserved ==
    /\ pc = "observed"
    /\ idx <= Len(reaction_systems)
    /\ species_list' = SynthesizeFor(species_list, reaction_systems[idx])
    /\ idx' = idx + 1
    /\ UNCHANGED <<pc, reaction_list, initial_species, reaction_systems, species_dict,
                   core, generate_images, fs, draw_calls, error, loaded>>

\* lines 105-110
MapSpecies ==
    /\ pc = "observed"
    /\ idx > Len(reaction_systems)
    /\ species_dict' = MapSpeciesDict(initial_species, species_list)
    /\ pc' = "pairs"
    /\ UNCHANGED <<idx, species_list, reaction_list, initial_species, reaction_systems,
                   core, generate_images, fs, draw_calls, error, loaded>>

\* lines 113-115
GeneratePairs ==
    /\ pc = "pairs"
    /\ reaction_list' = CompletePairs(reaction_list)
    /\ pc' = "replace"
    /\ idx' = 1
    /\ UNCHANGED <<species_list, initial_species, reaction_systems, species_dict,
                   core, generate_images, fs, draw_calls, error, loaded>>

\* lines 118-146, one reactor; a KeyError leaves the function with the
\* reactor as far as it was replaced
ReplaceSpecies ==
    /\ pc = "replace"
    /\ idx <= Len(reaction_systems)
    /\ LET r == RemapReactor(species_dict, initial_species, reaction_systems[idx])
       IN  /\ reaction_systems' = [reaction_systems EXCEPT ![idx] = r.rs]
           /\ IF r.ok
              THEN idx' = idx + 1 /\ UNCHANGED <<pc, error>>
              ELSE pc' = "raised" /\ error' = "KeyError" /\ UNCHANGED idx
    /\ UNCHANGED <<species_list, reaction_list, initial_species, species_dict,
                   core, generate_images, fs, draw_calls, loaded>>

\* lines 149-150
SetReactionModel ==
    /\ pc = "replace"
    /\ idx > Len(reaction_systems)
    /\ core' = [species |-> species_list, reactions |-> reaction_list]
    /\ pc' = IF generate_images THEN "mkdir" ELSE "returned"
    /\ UNCHANGED <<idx, species_list, reaction_list, initial_species, reaction_systems,
                   species_dict, generate_images, fs, draw_calls, error, loaded>>

\* lines 154-158: every OSError of os.mkdir is passed over
MakeSpeciesDir ==
    /\ pc = "mkdir"
    /\ fs' = Mkdir(fs)
    /\ pc' = "draw"
    /\ UNCHANGED <<idx, species_list, reaction_list, initial_species, reaction_systems,
                   species_dict, core, generate_images, draw_calls, error, loaded>>

\* lines 159-162
DrawSpecies ==
    /\ pc = "draw"
    /\ LET r == DrawImages(fs, species_list)
       IN  /\ fs' = r.f
           /\ draw_calls' = r.calls
           /\ pc' = IF r.ok THEN "returned" ELSE "raised"
           /\ error' = IF r.ok THEN error ELSE "IOError"
    /\ UNCHANGED <<idx, species_list, reaction_list, initial_species, reaction_systems,
                   species_dict, core, generate_images, loaded>>

Next ==
    \/ SynthesizeObserved
    \/ MapSpecies
    \/ GeneratePairs
    \/ ReplaceSpecies
    \/ SetReactionModel
    \/ MakeSpeciesDir
    \/ DrawSpecies

Spec == Init /\ [][Next]_vars

---------------------------------------------------------------------------
(* Properties *)

Finished == pc \in {"returned", "raised"}

\* the species dict has been built
Resolved == pc # "observed"

\* reactor k went through the whole of the replacement loop's body
Replaced(k) == pc \in {"replace", "returned", "mkdir", "draw", "raised"} /\ k < idx

\* reactor k's iteration of the replacement loop was entered
Entered(k) == Replaced(k) \/ (pc = "raised" /\ error = "KeyError" /\ k = idx)

\* the length of the species list load_chemkin_file returned
NLoaded == Len(loaded.species_list)

QuantityKeys(rs) ==
    UNION {Keys(rs[QuantityFields(rs.kind)[i]]) : i \in DOMAIN QuantityFields(rs.kind)}

ConversionSpecies(rs) ==
    {rs.termination[k].species :
        k \in {k \in DOMAIN rs.termination : IsConversion(rs.termination[k])}}

SensitiveSpecies(rs) ==
    IF rs.sensitive_species = AllSentinel THEN {} ELSE Range(rs.sensitive_species)

HeldConstantSpecies(rs) ==
    IF rs.kind = "MBSampledReactor" THEN Range(rs.constantSpeciesList) ELSE {}

\* the species the replacement loop looks up for a reactor
ReplacedReferences(rs) ==
    QuantityKeys(rs) \cup ConversionSpecies(rs) \cup SensitiveSpecies(rs)

\* C1: after load_rmg_py_job has returned, every species a reactor holds in
\* its quantity mappings, conversion criteria, sensitive species (other than
\* ['all']) or, for a sampled reactor, constantSpeciesList is an element of
\* rmg.reaction_model.core.species and none is an input-file species.
C1_AllReferencesCanonical ==
    pc = "returned" =>
        \A k \in DOMAIN reaction_systems :
            \A sp \in ReplacedReferences(reaction_systems[k])
                        \cup HeldConstantSpecies(reaction_systems[k]) :
                /\ sp \in Range(core.species)
                /\ sp \notin Range(initial_species)

\* C2: once built, the species dict maps every input species to the first
\* species of species_list isomorphic to it, has no entry for an input
\* species exactly when no species of the list is isomorphic to it, and
\* building it again from the same two lists gives the same dict.
C2_FirstMatch ==
    Resolved =>
        /\ DOMAIN species_dict \subseteq Range(initial_species)
        /\ \A i \in DOMAIN initial_species :
              LET S == initial_species[i]
                  iso == {j \in DOMAIN species_list : is_isomorphic(species_list[j], S)}
              IN  /\ S \in DOMAIN species_dict <=> iso # {}
                  /\ S \in DOMAIN species_dict =>
                        \E j \in iso : /\ species_dict[S] = species_list[j]
                                       /\ \A k \in iso : j <= k
        /\ MapSpeciesDict(initial_species, species_list) = species_dict

C2_Witness ==
    /\ Resolved
    /\ \E S \in DOMAIN species_dict :
          Cardinality({j \in DOMAIN species_list : is_isomorphic(species_list[j], S)}) > 1
    /\ \E i \in DOMAIN initial_species : initial_species[i] \notin DOMAIN species_dict

\* reactor rs, as load_input made it, refers to an input species the
\* species dict has no entry for
Unresolved(rs) == \E sp \in ReplacedReferences(rs) : sp \notin DOMAIN species_dict

\* liquid reactor rs, as load_input made it, names a constant species that
\* no input species is labelled with, or one the species dict has no entry for
UnresolvedName(rs) ==
    /\ rs.kind = "LiquidReactor"
    /\ \E n \in Range(rs.const_spc_names) :
          \/ \A i \in DOMAIN initial_species : initial_species[i].label # n
          \/ \E i \in DOMAIN initial_species :
                initial_species[i].label = n /\ initial_species[i] \notin DOMAIN species_dict

\* the reactors whose replacement cannot succeed
Failing ==
    {k \in DOMAIN loaded.reaction_systems :
        Unresolved(loaded.reaction_systems[k]) \/ UnresolvedName(loaded.reaction_systems[k])}

\* C3: if a reactor refers to an input species without an entry in the
\* species dict, load_rmg_py_job ends with a KeyError raised at the first
\* reactor that cannot be replaced; the reactors after it are left as
\* loaded and rmg.reaction_model.core is not overwritten.
C3_UnresolvedRaises ==
    (Finished /\ \E k \in DOMAIN loaded.reaction_systems :
                    Unresolved(loaded.reaction_systems[k]))
    => /\ pc = "raised"
       /\ error = "KeyError"
       /\ idx \in Failing
       /\ \A k \in Failing : idx <= k
       /\ \A k \in DOMAIN reaction_systems :
             k > idx => reaction_systems[k] = loaded.reaction_systems[k]
       /\ core = [species |-> <<>>, reactions |-> <<>>]

C3_Witness ==
    /\ pc = "raised"
    /\ error = "KeyError"
    /\ idx = 1
    /\ Len(reaction_systems) > 1
    /\ Unresolved(loaded.reaction_systems[1])
    /\ ReplacedReferences(reaction_systems[2]) # {}
    /\ ~Unresolved(loaded.reaction_systems[2])

\* C10: the species dict never points at an observed copy made in the same
\* run: the species loaded from Chemkin stay at the front of species_list,
\* every entry of the dict is one of them, and no replaced reactor field
\* holds an observed copy.
C10_NeverMapsToCopy ==
    /\ SubSeq(species_list, 1, NLoaded) = loaded.species_list
    /\ Resolved =>
          \A S \in DOMAIN species_dict :
              \E j \in 1..NLoaded : species_dict[S] = species_list[j]
    /\ \A k \in DOMAIN reaction_systems :
          Replaced(k) =>
              \A sp \in ReplacedReferences(reaction_systems[k]) :
                  \E j \in 1..NLoaded : sp = loaded.species_list[j]

C10_Witness ==
    /\ pc = "returned"
    /\ \E S \in DOMAIN species_dict :
          /\ \E j \in DOMAIN species_list :
                j > NLoaded /\ is_isomorphic(species_list[j], S)
          /\ \E k \in DOMAIN reaction_systems :
                species_dict[S] \in QuantityKeys(reaction_systems[k])

\* C4: observed-species synthesis never adds two species with one label,
\* nor a species whose label is already in the list: every label the
\* passes have added occurs exactly once in species_list.
C4_ObservedLabelsUnique ==
    \A j \in DOMAIN species_list :
        j > NLoaded =>
            Cardinality({k \in DOMAIN species_list :
                            species_list[k].label = species_list[j].label}) = 1

\* label.endswith('_obs')
EndsWithObs(label) == label # <<>> /\ label[Len(label)] = Obs

\* the species of sl that C5 has the pass for sampled reactor rs copy
ClaimedEligible(sl, rs) ==
    {i \in DOMAIN sl :
        /\ sl[i].reactive
        /\ ~EndsWithObs(sl[i].label)
        /\ \A c \in Range(rs.constantSpeciesList) : ~is_isomorphic(sl[i], c)
        /\ \A j \in DOMAIN sl : sl[j].label # sl[i].label \o <<Obs>>}

\* C5: the pass for one sampled reactor keeps the species already listed in
\* place and appends, for every listed species that is reactive, whose label
\* does not end with '_obs', that is isomorphic to no constant species of
\* the reactor and whose label + '_obs' is not in the list, exactly one copy
\* of the same structure labelled label + '_obs', and nothing else.
C5_OneCopyPerEligible ==
    [][(/\ pc = "observed"
        /\ idx <= Len(reaction_systems)
        /\ reaction_systems[idx].kind = "MBSampledReactor")
       => LET sl   == species_list
              n    == Len(species_list)
              elig == ClaimedEligible(species_list, reaction_systems[idx])
          IN  /\ Len(species_list') = n + Cardinality(elig)
              /\ SubSeq(species_list', 1, n) = sl
              /\ \A i \in DOMAIN sl :
                    Cardinality({j \in (n + 1)..Len(species_list') :
                                    /\ species_list'[j].label = sl[i].label \o <<Obs>>
                                    /\ species_list'[j].struct = sl[i].struct})
                    = Cardinality({e \in elig : /\ sl[e].label = sl[i].label
                                                /\ sl[e].struct = sl[i].struct})]_vars

\* how often amount v occurs among the values of dict d
Occurrences(d, v) == Cardinality({i \in DOMAIN d : d[i][2] = v})

\* C6: replacing the keys of a reactor's quantity mapping whose keys all
\* have an entry in the species dict keeps the number of entries, the
\* multiset of the values and their sum, and stores every value under the
\* species the dict gives for its former key.
C6_QuantitiesPreserved ==
    \A k \in DOMAIN reaction_systems :
        Replaced(k) =>
            \A f \in Range(QuantityFields(reaction_systems[k].kind)) :
                LET before == loaded.reaction_systems[k][f]
                    after  == reaction_systems[k][f]
                IN  Keys(before) \subseteq DOMAIN species_dict =>
                        /\ Len(after) = Len(before)
                        /\ \A v \in Amounts : Occurrences(after, v) = Occurrences(before, v)
                        /\ SeqSum(Values(after)) = SeqSum(Values(before))
                        /\ \A i \in DOMAIN before :
                              <<species_dict[before[i][1]], before[i][2]>> \in Range(after)

\* the pairs of every reaction have been completed
PairsDone == pc \notin {"observed", "pairs"}

\* C7: generate_pairs is called for a reaction exactly when its pairs are
\* empty or None; a reaction that came with pairs keeps them; and
\* completing the pairs once more changes no reaction's pairs.
C7_PairsNotRecomputed ==
    PairsDone =>
        /\ \A k \in DOMAIN reaction_list :
              LET before == loaded.reaction_list[k]
                  after  == reaction_list[k]
                  absent == before.pairs = None \/ Len(before.pairs) = 0
              IN  /\ after.calls = IF absent THEN 1 ELSE 0
                  /\ ~absent => after.pairs = before.pairs
                  /\ absent => after.pairs = before.derived
        /\ \A k \in DOMAIN reaction_list :
              CompletePairs(reaction_list)[k].pairs = reaction_list[k].pairs

C7_Witness ==
    /\ PairsDone
    /\ \E k \in DOMAIN reaction_list :
          /\ Len(loaded.reaction_list[k].pairs) = 2
          /\ loaded.reaction_list[k].pairs # None
          /\ loaded.reaction_list[k].derived # loaded.reaction_list[k].pairs
          /\ reaction_list[k].pairs = loaded.reaction_list[k].pairs
    /\ \E k \in DOMAIN reaction_list :
          /\ loaded.reaction_list[k].pairs = <<>>
          /\ reaction_list[k].calls = 1
          /\ reaction_list[k].pairs # <<>>

\* os.mkdir has been called
MkdirRan == generate_images /\ (pc = "draw" \/ (Finished /\ error # "KeyError"))

\* C8: with generate_images set, a failure of os.mkdir other than "the
\* directory exists" leaves load_rmg_py_job as an OSError, and no image is
\* drawn.
C8_MkdirFailurePropagates ==
    (MkdirRan /\ MkdirResult(loaded.fs) = "EACCES")
    => /\ pc = "raised"
       /\ error = "OSError"
       /\ draw_calls = <<>>

\* the input species labelled n
Named(n) == {i \in DOMAIN initial_species : initial_species[i].label = n}

\* C9: once the replacement loop has entered a liquid reactor whose
\* const_spc_names is not empty and each of whose names is the label of one
\* input species, which has an entry in the species dict, the list has the
\* same length and its entry i is the label of the species the dict gives
\* for the input species labelled with the former entry i; if a name is no
\* input species' label, or the label of one without an entry in the dict,
\* the load ends with a KeyError.
C9_ConstNamesReplaced ==
    \A k \in DOMAIN reaction_systems :
        LET names == loaded.reaction_systems[k].const_spc_names
        IN  (loaded.reaction_systems[k].kind = "LiquidReactor" /\ names # <<>>) =>
              /\ (/\ Entered(k)
                  /\ \A i \in DOMAIN names :
                        /\ Cardinality(Named(names[i])) = 1
                        /\ \A j \in Named(names[i]) :
                              initial_species[j] \in DOMAIN species_dict)
                 => /\ Len(reaction_systems[k].const_spc_names) = Len(names)
                    /\ \A i \in DOMAIN names :
                          \A j \in Named(names[i]) :
                              reaction_systems[k].const_spc_names[i]
                                  = species_dict[initial_species[j]].label
              /\ (Finished /\ UnresolvedName(loaded.reaction_systems[k]))
                 => /\ pc = "raised"
                    /\ error = "KeyError"
                    /\ idx <= k

C9_Witness ==
    /\ pc = "returned"
    /\ \E k \in DOMAIN reaction_systems :
          /\ reaction_systems[k].kind = "LiquidReactor"
          /\ Len(reaction_systems[k].const_spc_names) = 2
          /\ loaded.reaction_systems[k].const_spc_names[1]
                # loaded.reaction_systems[k].const_spc_names[2]
          /\ reaction_systems[k].const_spc_names[1] # reaction_systems[k].const_spc_names[2]
          /\ \A i \in 1..2 : reaction_systems[k].const_spc_names[i]
                                # loaded.reaction_systems[k].const_spc_names[i]

\* a load that a constant species name alone has ended
C9_RaisedByName ==
    /\ pc = "raised"
    /\ UnresolvedName(loaded.reaction_systems[idx])
    /\ ~Unresolved(loaded.reaction_systems[idx])

====
